---- MODULE Spec2Model ----
(***************************************************************************)
(* 17Call backend (src/app.js over the PostgreSQL schema of                *)
(* src/17call_schema.sql): voucher validation, call start / call end       *)
(* settlement and voucher generation.                                      *)
(*                                                                         *)
(* Every `await pool.query(...)` of a handler is one atomic step: the      *)
(* statement runs atomically in the database, and the synchronous code     *)
(* that follows it up to the next query belongs to the same step.          *)
(* Handlers of different requests interleave between their queries.        *)
(***************************************************************************)
EXTENDS Integers, Sequences, FiniteSets, Bags, TLC

\* ---------------------------------------------------------------- bounds
\* requests the server admits in one run
MaxRequests == 5
\* largest durationMinutes / quantity a request carries
MaxDuration == 2
MaxQuantity == 2

\* app.js:346, the largest quantity a batch accepts
MaxBatchQuantity == 1000
\* app.js:194, seconds per billed minute
SecondsPerMinute == 60

\* two requests are in flight at the same time
Slots == {1, 2}
\* the space generateVoucherCode draws from (36^12 codes in the program)
CodeSymbols == {"7K2M", "Q9XD"}
\* SQL NULL / JS null: "NULL" in text columns, 0 in id and timestamp columns
NULL == "NULL"
Devices == {"devA", "devB"}
\* a field the request body does not carry: "" in text fields, 0 in id fields
Missing == ""
\* actualDurationSeconds values a client may send
SecondsInputs == {-60, 0, 1, 60, 61}

\* A code is a symbol and a letter case; digits have no case.
generateVoucherCode == {[sym |-> k, upper |-> TRUE] : k \in CodeSymbols}
\* the codes and deviceIds a validate request may carry
CodeInputs == {[sym |-> k, upper |-> u] : k \in CodeSymbols, u \in BOOLEAN}
                 \cup {[sym |-> Missing, upper |-> TRUE]}
DeviceInputs == Devices \cup {Missing}
toUpperCase(code) == [code EXCEPT !.upper = TRUE]

VARIABLES
    vouchers,        \* table vouchers, committed rows; id = index
    call_logs,       \* table call_logs; call_id = index
    voucher_batches, \* table voucher_batches, committed rows
    system_logs,     \* table system_logs, a bag of rows
    req,             \* the request each slot is serving: handler, position, locals
    clock,           \* number of CURRENT_TIMESTAMP writes so far
    debits,          \* history: per call, the minutesUsed of each voucher UPDATE run for it
    served           \* number of requests admitted so far

vars == <<vouchers, call_logs, voucher_batches, system_logs, req, clock, debits, served>>

Idle == [op |-> "none", pc |-> "idle"]

sendResponse(data) == [success |-> TRUE, status |-> 200, data |-> data]
sendError(error, status) == [success |-> FALSE, status |-> status, error |-> error]

\* slot s moves to position pc; `locals` are the handler's new or changed locals
Goto(s, pc, locals) == req' = [req EXCEPT ![s] = [pc |-> pc] @@ locals @@ req[s]]
\* the handler of slot s has sent `res` and returned: its locals are gone.
\* `head` is what is kept of the request to read the response against
Finish(s, head, res) == req' = [req EXCEPT ![s] = [pc |-> "done", res |-> res] @@ head]
Op(s) == [op |-> req[s].op]

\* a new request takes the first free slot
Free(s) ==
    /\ served < MaxRequests
    /\ served' = served + 1
    /\ req[s].pc = "idle"
    /\ \A t \in Slots : t < s => req[t].pc # "idle"

InFlight(op, pcs) == {s \in Slots : req[s].op = op /\ req[s].pc \in pcs}

\* JS truthiness of row[col]: a column the SELECT did not return is undefined
Truthy(row, col) == col \in DOMAIN row /\ row[col] # NULL

RECURSIVE SeqSum(_)
SeqSum(q) == IF q = <<>> THEN 0 ELSE Head(q) + SeqSum(Tail(q))

Init ==
    /\ vouchers = <<>>
    /\ call_logs = <<>>
    /\ voucher_batches = {}
    /\ system_logs = EmptyBag
    /\ req = [s \in Slots |-> Idle]
    /\ clock = 0
    /\ debits = <<>>
    /\ served = 0

LogRow(action, entity_type, entity_id) ==
    [action |-> action, entity_type |-> entity_type, entity_id |-> entity_id]
InsertLog(row) == system_logs' = system_logs (+) SetToBag({row})

\* ------------------------------------------- POST /api/v1/vouchers/validate
\* SELECT id, duration_minutes, remaining_minutes, is_used, is_active
\*   FROM vouchers WHERE code = $1
SelectVoucherByCode(code) ==
    { [id |-> i,
       duration_minutes |-> vouchers[i].duration_minutes,
       remaining_minutes |-> vouchers[i].remaining_minutes,
       is_used |-> vouchers[i].is_used,
       is_active |-> vouchers[i].is_active] :
      i \in {j \in 1..Len(vouchers) : vouchers[j].code = code} }

Invalid == sendResponse([valid |-> FALSE, durationMinutes |-> 0, voucherId |-> 0])

\* the check with the is_active test left out
IneligibleIgnoringActive(voucher) ==
    voucher.is_used \/ voucher.remaining_minutes <= 0

\* !voucher.is_active || voucher.is_used || voucher.remaining_minutes <= 0
Ineligible(voucher) ==
    ~voucher.is_active \/ voucher.is_used \/ voucher.remaining_minutes <= 0

ValidateSelect(s, code, deviceId) ==
    /\ Free(s)
    /\  LET rows == SelectVoucherByCode(toUpperCase(code))
            head == [op |-> "validate", code |-> code, deviceId |-> deviceId]
        IN  IF code.sym = Missing \/ deviceId = Missing
            THEN Finish(s, head, sendError("Code and deviceId are required", 400))
            ELSE IF rows = {}
            THEN Finish(s, head, Invalid)
            ELSE LET voucher == CHOOSE r \in rows : TRUE IN
                 IF Ineligible(voucher)
                 THEN Finish(s, head, Invalid)
                 ELSE IF ~Truthy(voucher, "device_id")
                 THEN Goto(s, "v_update", [voucher |-> voucher] @@ head)
                 ELSE Finish(s, head, sendResponse([valid |-> TRUE,
                                                  durationMinutes |-> voucher.remaining_minutes,
                                                  voucherId |-> voucher.id]))
    /\ UNCHANGED <<vouchers, call_logs, voucher_batches, system_logs, clock, debits>>

\* UPDATE vouchers SET device_id = $1 WHERE id = $2
ValidateUpdate(s) ==
    /\ req[s].op = "validate" /\ req[s].pc = "v_update"
    /\ vouchers' = [vouchers EXCEPT ![req[s].voucher.id].device_id = req[s].deviceId]
    /\ Finish(s, [op |-> "validate", code |-> req[s].code, deviceId |-> req[s].deviceId],
              sendResponse([valid |-> TRUE,
                               durationMinutes |-> req[s].voucher.remaining_minutes,
                               voucherId |-> req[s].voucher.id]))
    /\ UNCHANGED <<call_logs, voucher_batches, system_logs, clock, debits, served>>

\* ------------------------------------------------- POST /api/v1/calls/start
\* the SELECT with `AND is_active = true` left out
SelectVoucherIgnoringActive(voucherId) ==
    { [remaining_minutes |-> vouchers[i].remaining_minutes,
       device_id |-> vouchers[i].device_id] :
      i \in {j \in 1..Len(vouchers) : j = voucherId /\ ~vouchers[j].is_used} }

\* SELECT remaining_minutes, device_id FROM vouchers
\*   WHERE id = $1 AND is_active = true AND is_used = false
SelectEligibleVoucher(voucherId) ==
    { [remaining_minutes |-> vouchers[i].remaining_minutes,
       device_id |-> vouchers[i].device_id] :
      i \in {j \in 1..Len(vouchers) :
                j = voucherId /\ vouchers[j].is_active /\ ~vouchers[j].is_used} }

StartSelect(s, voucherId) ==
    /\ Free(s)
    /\  LET rows == SelectEligibleVoucher(voucherId)
            body == [op |-> "startCall", voucherId |-> voucherId]
        IN  IF voucherId = 0
            THEN Finish(s, body, sendError("All fields are required", 400))
            ELSE IF rows = {}
            THEN Finish(s, body, sendError("Invalid or expired voucher", 400))
            ELSE LET voucher == CHOOSE r \in rows : TRUE IN
                 IF voucher.remaining_minutes <= 0
                 THEN Finish(s, body, sendError("No minutes remaining on voucher", 400))
                 ELSE Goto(s, "s_insert", [voucher |-> voucher] @@ body)
    /\ UNCHANGED <<vouchers, call_logs, voucher_batches, system_logs, clock, debits>>

\* INSERT INTO call_logs (call_id, voucher_id, ..., device_id); the schema defaults
\* duration_seconds to 0, status to 'active', started_at to CURRENT_TIMESTAMP and
\* leaves ended_at NULL
StartInsert(s) ==
    /\ req[s].op = "startCall" /\ req[s].pc = "s_insert"
    /\ call_logs' = Append(call_logs,
                           [voucher_id |-> req[s].voucherId,
                            device_id |-> req[s].voucher.device_id,
                            duration_seconds |-> 0,
                            status |-> "active",
                            started_at |-> clock,
                            ended_at |-> 0])
    /\ debits' = Append(debits, <<>>)
    /\ Goto(s, "s_log", [callId |-> Len(call_logs) + 1])
    /\ UNCHANGED <<vouchers, voucher_batches, system_logs, clock, served>>

StartLog(s) ==
    /\ req[s].op = "startCall" /\ req[s].pc = "s_log"
    /\ InsertLog(LogRow("call_started", "call", req[s].callId))
    /\ Finish(s, Op(s), sendResponse([callId |-> req[s].callId,
                               remainingMinutes |-> req[s].voucher.remaining_minutes]))
    /\ UNCHANGED <<vouchers, call_logs, voucher_batches, clock, debits, served>>

\* --------------------------------------------------- POST /api/v1/calls/end
\* Math.floor in the place of Math.ceil
MathFloor(seconds) == seconds \div SecondsPerMinute

\* Math.ceil(actualDurationSeconds / 60)
MathCeil(seconds) == -((-seconds) \div SecondsPerMinute)

GREATEST(a, b) == IF a >= b THEN a ELSE b

\* the UPDATE with `< 0` in the place of `<= 0`
DebitRowStrict(row, minutesUsed, now) ==
    [row EXCEPT
        !.remaining_minutes = GREATEST(0, row.remaining_minutes - minutesUsed),
        !.is_used = IF row.remaining_minutes - minutesUsed < 0 THEN TRUE ELSE row.is_used,
        !.used_at = IF row.remaining_minutes - minutesUsed < 0 /\ row.used_at = 0
                    THEN now ELSE row.used_at]

\* the UPDATE with `remaining_minutes - $1` in the place of GREATEST(0, ...)
DebitRowUnclamped(row, minutesUsed, now) ==
    [row EXCEPT
        !.remaining_minutes = row.remaining_minutes - minutesUsed,
        !.is_used = IF row.remaining_minutes - minutesUsed <= 0 THEN TRUE ELSE row.is_used,
        !.used_at = IF row.remaining_minutes - minutesUsed <= 0 /\ row.used_at = 0
                    THEN now ELSE row.used_at]

\* the UPDATE with `AND used_at IS NULL` left out
DebitRowRestamping(row, minutesUsed, now) ==
    [row EXCEPT
        !.remaining_minutes = GREATEST(0, row.remaining_minutes - minutesUsed),
        !.is_used = IF row.remaining_minutes - minutesUsed <= 0 THEN TRUE ELSE row.is_used,
        !.used_at = IF row.remaining_minutes - minutesUsed <= 0 THEN now ELSE row.used_at]

\* UPDATE vouchers SET remaining_minutes = GREATEST(0, remaining_minutes - $1),
\*   is_used = CASE WHEN (remaining_minutes - $1) <= 0 THEN true ELSE is_used END,
\*   used_at = CASE WHEN (remaining_minutes - $1) <= 0 AND used_at IS NULL
\*             THEN CURRENT_TIMESTAMP ELSE used_at END
\* every right-hand side reads the row as it was before the statement
DebitRow(row, minutesUsed, now) ==
    [row EXCEPT
        !.remaining_minutes = GREATEST(0, row.remaining_minutes - minutesUsed),
        !.is_used = IF row.remaining_minutes - minutesUsed <= 0 THEN TRUE ELSE row.is_used,
        !.used_at = IF row.remaining_minutes - minutesUsed <= 0 /\ row.used_at = 0
                    THEN now ELSE row.used_at]

EndSelect(s, callId, actualDurationSeconds) ==
    /\ Free(s)
    /\  LET body == [op |-> "endCall", callId |-> callId,
                     actualDurationSeconds |-> actualDurationSeconds]
        IN  IF callId = 0
            THEN Finish(s, [op |-> body.op],
                        sendError("CallId and actualDurationSeconds are required", 400))
            ELSE IF callId \notin 1..Len(call_logs)
            THEN Finish(s, [op |-> body.op], sendError("Call not found", 400))
            ELSE Goto(s, "e_call",
                      [voucherId |-> call_logs[callId].voucher_id,
                       minutesUsed |-> MathCeil(actualDurationSeconds)] @@ body)
    /\ UNCHANGED <<vouchers, call_logs, voucher_batches, system_logs, clock, debits>>

\* UPDATE call_logs SET duration_seconds = $1, status = 'completed',
\*   ended_at = CURRENT_TIMESTAMP WHERE call_id = $2
EndUpdateCall(s) ==
    /\ req[s].op = "endCall" /\ req[s].pc = "e_call"
    /\ clock' = clock + 1
    /\ call_logs' = [call_logs EXCEPT ![req[s].callId] =
                        [@ EXCEPT !.duration_seconds = req[s].actualDurationSeconds,
                                  !.status = "completed",
                                  !.ended_at = clock']]
    /\ Goto(s, "e_voucher", <<>>)
    /\ UNCHANGED <<vouchers, voucher_batches, system_logs, debits, served>>

EndUpdateVoucher(s) ==
    /\ req[s].op = "endCall" /\ req[s].pc = "e_voucher"
    /\ clock' = clock + 1
    /\ vouchers' = [vouchers EXCEPT ![req[s].voucherId] =
                        DebitRow(@, req[s].minutesUsed, clock')]
    /\ debits' = [debits EXCEPT ![req[s].callId] = Append(@, req[s].minutesUsed)]
    /\ Goto(s, "e_log", [remainingMinutes |-> vouchers'[req[s].voucherId].remaining_minutes])
    /\ UNCHANGED <<call_logs, voucher_batches, system_logs, served>>

EndLog(s) ==
    /\ req[s].op = "endCall" /\ req[s].pc = "e_log"
    /\ InsertLog(LogRow("call_ended", "call", req[s].callId))
    /\ Finish(s, Op(s), sendResponse([success |-> TRUE, remainingMinutes |-> req[s].remainingMinutes]))
    /\ UNCHANGED <<vouchers, call_logs, voucher_batches, clock, debits, served>>

\* ------------------------------------- POST /api/v1/admin/vouchers/generate
\* the INSERT with the batch_id parameter left out
NewVoucherNoBatch(code, durationMinutes, batchId) ==
    [code |-> code,
     duration_minutes |-> durationMinutes,
     remaining_minutes |-> durationMinutes,
     is_used |-> FALSE,
     is_active |-> TRUE,
     device_id |-> NULL,
     used_at |-> 0,
     batch_id |-> 0]

\* INSERT INTO vouchers (code, duration_minutes, remaining_minutes, created_by[, batch_id])
\*   VALUES ($1, $2, $2, ...); the schema defaults the other columns
NewVoucher(code, durationMinutes, batchId) ==
    [code |-> code,
     duration_minutes |-> durationMinutes,
     remaining_minutes |-> durationMinutes,
     is_used |-> FALSE,
     is_active |-> TRUE,
     device_id |-> NULL,
     used_at |-> 0,
     batch_id |-> batchId]

\* SELECT id FROM vouchers WHERE code = $1, over the committed rows
CodeExists(code) == \E i \in 1..Len(vouchers) : vouchers[i].code = code

\* rows a batch transaction has inserted and not yet committed
Pending(t) ==
    IF req[t].op = "batch" /\ req[t].pc \in {"b_check", "b_insert", "b_commit", "b_rollback"}
    THEN req[t].pending ELSE <<>>
PendingCode(t, code) == \E i \in 1..Len(Pending(t)) : Pending(t)[i].code = code
\* the UNIQUE index on vouchers.code makes an INSERT wait for a transaction
\* that holds an uncommitted row with the same code
MustWait(s, code) == \E t \in Slots \ {s} : PendingCode(t, code)

\* one round of `while (!isUnique)`
GenerateSelect(s, durationMinutes) ==
    /\ \/ /\ Free(s)
          /\  LET body == [op |-> "generate", durationMinutes |-> durationMinutes] IN
              IF durationMinutes <= 0
              THEN Finish(s, [op |-> body.op], sendError("Valid durationMinutes is required", 400))
              ELSE \E code \in generateVoucherCode :
                      IF CodeExists(code)
                      THEN Goto(s, "g_check", [code |-> code] @@ body)
                      ELSE Goto(s, "g_insert", [code |-> code] @@ body)
       \/ /\ req[s].op = "generate" /\ req[s].pc = "g_check"
          /\ UNCHANGED served
          /\ \E code \in generateVoucherCode :
                IF CodeExists(code)
                THEN Goto(s, "g_check", [code |-> code])
                ELSE Goto(s, "g_insert", [code |-> code])
    /\ UNCHANGED <<vouchers, call_logs, voucher_batches, system_logs, clock, debits>>

\* the INSERT on a table without the UNIQUE index on code
GenerateInsertNoIndex(s) ==
    /\ req[s].op = "generate" /\ req[s].pc = "g_insert"
    /\ vouchers' = Append(vouchers, NewVoucher(req[s].code, req[s].durationMinutes, 0))
    /\ Goto(s, "g_log", [id |-> Len(vouchers) + 1])
    /\ UNCHANGED <<call_logs, voucher_batches, system_logs, clock, debits, served>>

\* INSERT INTO vouchers (code, duration_minutes, remaining_minutes, created_by)
\* RETURNING id, on the pool
GenerateInsert(s) ==
    /\ req[s].op = "generate" /\ req[s].pc = "g_insert"
    /\ ~MustWait(s, req[s].code)
    /\ IF CodeExists(req[s].code)
       THEN \* unique violation: the query throws, the handler's catch answers 500
            /\ Finish(s, Op(s), sendError("Internal server error", 500))
            /\ UNCHANGED vouchers
       ELSE /\ vouchers' = Append(vouchers, NewVoucher(req[s].code, req[s].durationMinutes, 0))
            /\ Goto(s, "g_log", [id |-> Len(vouchers) + 1])
    /\ UNCHANGED <<call_logs, voucher_batches, system_logs, clock, debits, served>>

GenerateLog(s) ==
    /\ req[s].op = "generate" /\ req[s].pc = "g_log"
    /\ InsertLog(LogRow("voucher_created", "voucher", req[s].id))
    /\ Finish(s, Op(s), sendResponse([code |-> req[s].code, durationMinutes |-> req[s].durationMinutes]))
    /\ UNCHANGED <<vouchers, call_logs, voucher_batches, clock, debits, served>>

\* the INSERT INTO system_logs throws: the handler's catch answers 500; in the
\* batch handler it is the inner catch, which sends ROLLBACK first
AuditFail(s) ==
    /\ req[s].pc \in {"s_log", "e_log", "g_log", "b_log"}
    /\ IF req[s].pc = "b_log"
       THEN Goto(s, "b_rollback", <<>>)
       ELSE Finish(s, Op(s), sendError("Internal server error", 500))
    /\ UNCHANGED <<vouchers, call_logs, voucher_batches, system_logs, clock, debits, served>>

\* ---------------------------------------- POST /api/v1/admin/vouchers/batch
\* SELECT id FROM vouchers WHERE code = $1 on the transaction's client: the
\* committed rows and the transaction's own
CodeExistsInTx(s, code) == CodeExists(code) \/ PendingCode(s, code)

\* the request checks, pool.connect(), BEGIN and INSERT INTO voucher_batches;
\* BEGIN and the INSERT of a row no one else can see touch no shared state.
\* The batch's fresh uuid is the number of the request.
BatchBegin(s, quantity, durationMinutes) ==
    /\ Free(s)
    /\  LET body == [op |-> "batch", quantity |-> quantity, durationMinutes |-> durationMinutes]
        IN  IF quantity <= 0 \/ durationMinutes <= 0
            THEN Finish(s, [op |-> body.op], sendError("Valid quantity and durationMinutes are required", 400))
            ELSE IF quantity > MaxBatchQuantity
            THEN Finish(s, [op |-> body.op], sendError("Maximum 1000 vouchers per batch", 400))
            ELSE Goto(s, "b_check",
                      [batchId |-> served',
                       codes |-> <<>>, pending |-> <<>>, committed |-> FALSE] @@ body)
    /\ UNCHANGED <<vouchers, call_logs, voucher_batches, system_logs, clock, debits>>

\* one round of `while (!isUnique)` inside the transaction
BatchSelect(s) ==
    /\ req[s].op = "batch" /\ req[s].pc = "b_check"
    /\ \E code \in generateVoucherCode :
          IF CodeExistsInTx(s, code)
          THEN Goto(s, "b_check", [code |-> code])
          ELSE Goto(s, "b_insert", [code |-> code])
    /\ UNCHANGED <<vouchers, call_logs, voucher_batches, system_logs, clock, debits, served>>

\* the INSERT sent on the pool (pool.query) instead of the transaction's client:
\* it commits on its own
BatchInsertOnPool(s) ==
    /\ req[s].op = "batch" /\ req[s].pc = "b_insert"
    /\ ~MustWait(s, req[s].code)
    /\ IF CodeExistsInTx(s, req[s].code)
       THEN Goto(s, "b_rollback", <<>>) /\ UNCHANGED vouchers
       ELSE LET codes == Append(req[s].codes, req[s].code) IN
            /\ vouchers' = Append(vouchers,
                    NewVoucher(req[s].code, req[s].durationMinutes, req[s].batchId))
            /\ Goto(s, IF Len(codes) < req[s].quantity THEN "b_check" ELSE "b_commit",
                    [codes |-> codes])
    /\ UNCHANGED <<call_logs, voucher_batches, system_logs, clock, debits, served>>

\* INSERT INTO vouchers (..., batch_id) inside the transaction, codes.push(code), i++
BatchInsert(s) ==
    /\ req[s].op = "batch" /\ req[s].pc = "b_insert"
    /\ ~MustWait(s, req[s].code)
    /\ IF CodeExistsInTx(s, req[s].code)
       THEN \* unique violation: the query throws into the inner catch
            Goto(s, "b_rollback", <<>>)
       ELSE LET codes == Append(req[s].codes, req[s].code)
                pending == Append(req[s].pending,
                                  NewVoucher(req[s].code, req[s].durationMinutes, req[s].batchId))
            IN  Goto(s, IF Len(codes) < req[s].quantity THEN "b_check" ELSE "b_commit",
                     [codes |-> codes, pending |-> pending])
    /\ UNCHANGED <<vouchers, call_logs, voucher_batches, system_logs, clock, debits, served>>

\* COMMIT: the batch row and the vouchers of the transaction become visible at once
BatchCommit(s) ==
    /\ req[s].op = "batch" /\ req[s].pc = "b_commit"
    /\ voucher_batches' = voucher_batches \cup
           {[id |-> req[s].batchId, quantity |-> req[s].quantity,
             duration_minutes |-> req[s].durationMinutes]}
    /\ vouchers' = vouchers \o req[s].pending
    /\ Goto(s, "b_log", [pending |-> <<>>, committed |-> TRUE])
    /\ UNCHANGED <<call_logs, system_logs, clock, debits, served>>

\* the audit INSERT on the pool, then the response
BatchLog(s) ==
    /\ req[s].op = "batch" /\ req[s].pc = "b_log"
    /\ InsertLog(LogRow("voucher_batch_created", "voucher_batch", req[s].batchId))
    /\ Finish(s, Op(s), sendResponse([codes |-> req[s].codes, total |-> Len(req[s].codes)]))
    /\ UNCHANGED <<vouchers, call_logs, voucher_batches, clock, debits, served>>

\* a SELECT or INSERT of the transaction throws into the inner catch
BatchFail(s) ==
    /\ req[s].op = "batch" /\ req[s].pc \in {"b_check", "b_insert"}
    /\ Goto(s, "b_rollback", <<>>)
    /\ UNCHANGED <<vouchers, call_logs, voucher_batches, system_logs, clock, debits, served>>

\* catch: ROLLBACK drops the rows of an open transaction and does nothing after
\* COMMIT; the error is thrown on to the outer catch, which answers 500
BatchRollback(s) ==
    /\ req[s].op = "batch" /\ req[s].pc = "b_rollback"
    /\ Finish(s, Op(s), sendError("Internal server error", 500))
    /\ UNCHANGED <<vouchers, call_logs, voucher_batches, system_logs, clock, debits, served>>

\* ------------------------------------------------------------ administration
\* vouchers.is_active is "administratively controlled" and no handler writes it:
\* an administrator turns it off in the database
Deactivate ==
    /\ \E id \in 1..Len(vouchers) :
          /\ vouchers[id].is_active
          /\ vouchers' = [vouchers EXCEPT ![id].is_active = FALSE]
    /\ UNCHANGED <<call_logs, voucher_batches, system_logs, req, clock, debits, served>>

\* the response has gone out; the slot serves the next request
Respond(s) ==
    /\ req[s].pc = "done"
    /\ req' = [req EXCEPT ![s] = Idle]
    /\ UNCHANGED <<vouchers, call_logs, voucher_batches, system_logs, clock, debits, served>>

\* ------------------------------------------------------------ request bodies
VoucherIds == 0..Len(vouchers) + 1
CallIds == 0..Len(call_logs) + 1
Durations == 0..MaxDuration
Quantities == 0..MaxQuantity

Validate(s, codes, devices) ==
    \/ \E code \in codes, deviceId \in devices : ValidateSelect(s, code, deviceId)
    \/ ValidateUpdate(s)

StartCall(s) ==
    \/ \E voucherId \in VoucherIds : StartSelect(s, voucherId)
    \/ StartInsert(s)
    \/ StartLog(s)

EndCall(s, seconds) ==
    \/ \E callId \in CallIds, actualDurationSeconds \in seconds :
          EndSelect(s, callId, actualDurationSeconds)
    \/ EndUpdateCall(s)
    \/ EndUpdateVoucher(s)
    \/ EndLog(s)

Generate(s, durations) ==
    \/ \E durationMinutes \in durations : GenerateSelect(s, durationMinutes)
    \/ GenerateInsert(s)
    \/ GenerateLog(s)

Batch(s) ==
    \/ \E quantity \in Quantities, durationMinutes \in Durations :
          BatchBegin(s, quantity, durationMinutes)
    \/ BatchSelect(s)
    \/ BatchInsert(s)
    \/ BatchCommit(s)
    \/ BatchLog(s)
    \/ BatchFail(s)
    \/ BatchRollback(s)

Next ==
    \/ \E s \in Slots :
        \/ Validate(s, CodeInputs, DeviceInputs)
        \/ StartCall(s)
        \/ EndCall(s, SecondsInputs)
        \/ Generate(s, Durations)
        \/ Batch(s)
        \/ AuditFail(s)
        \/ Respond(s)
    \/ Deactivate

Spec == Init /\ [][Next]_vars

\* settlement: vouchers are generated, calls start and end
NextSettle ==
    \E s \in Slots :
        \/ Generate(s, Durations)
        \/ StartCall(s)
        \/ EndCall(s, SecondsInputs)
        \/ Respond(s)
SpecSettle == Init /\ [][NextSettle]_vars

\* redemption: vouchers are generated, validated, used up by a call and deactivated
NextRedeem ==
    \/ \E s \in Slots :
        \/ Generate(s, {MaxDuration})
        \/ Validate(s, CodeInputs, DeviceInputs)
        \/ StartCall(s)
        \/ EndCall(s, {SecondsPerMinute * MaxDuration})
        \/ Respond(s)
    \/ Deactivate
SpecRedeem == Init /\ [][NextRedeem]_vars

\* allocation: single and batch generation
NextAllocate ==
    \E s \in Slots :
        \/ Generate(s, Durations)
        \/ Batch(s)
        \/ Respond(s)
SpecAllocate == Init /\ [][NextAllocate]_vars

\* audit: as settlement, with the INSERT INTO system_logs able to fail
NextAudit ==
    \E s \in Slots :
        \/ Generate(s, {MaxDuration})
        \/ StartCall(s)
        \/ EndCall(s, {SecondsPerMinute})
        \/ AuditFail(s)
        \/ Respond(s)
SpecAudit == Init /\ [][NextAudit]_vars

\* batch audit: batch generation, with the INSERT INTO system_logs able to fail
NextBatchAudit ==
    \E s \in Slots :
        \/ Batch(s)
        \/ AuditFail(s)
        \/ Respond(s)
SpecBatchAudit == Init /\ [][NextBatchAudit]_vars

\* a handler that has been admitted goes on: the event loop runs every
\* continuation whose query has returned
Resume(s) ==
    /\ req[s].pc # "idle"
    /\ (Generate(s, Durations) \/ Respond(s))
\* exhaustion: single generations over the code space, every handler served on
NextExhaust ==
    \E s \in Slots :
        \/ Generate(s, Durations)
        \/ Respond(s)
SpecExhaust == Init /\ [][NextExhaust]_vars /\ \A s \in Slots : WF_vars(Resume(s))

\* =================================================================== claims
Ids == 1..Len(vouchers)
Max(a, b) == IF a >= b THEN a ELSE b
CallsOf(id) == {c \in 1..Len(call_logs) : call_logs[c].voucher_id = id}
\* minutes the endCall operations on the calls of voucher id have billed
RECURSIVE BilledOn(_)
BilledOn(calls) ==
    IF calls = {} THEN 0
    ELSE LET c == CHOOSE x \in calls : TRUE IN SeqSum(debits[c]) + BilledOn(calls \ {c})
Billed(id) == BilledOn(CallsOf(id))
\* an endCall on a call of voucher id has not finished its updates
Settling(id) ==
    \E s \in InFlight("endCall", {"e_call", "e_voucher"}) : req[s].voucherId = id

\* C1: when the endCall operations on the calls of a voucher are over and have
\* billed m1..mN with sum(mi) <= durationMinutes, the voucher's remainingMinutes
\* is durationMinutes - sum(mi), whatever the interleaving of their steps.
C1_NoLostUpdate ==
    \A id \in Ids :
        (/\ ~Settling(id)
         /\ Billed(id) <= vouchers[id].duration_minutes)
        => vouchers[id].remaining_minutes = vouchers[id].duration_minutes - Billed(id)

\* The same over the runs in which every billed amount is >= 0: the single
\* UPDATE loses no debit.
DebitsAddUp ==
    \A id \in Ids :
        (/\ ~Settling(id)
         /\ \A c \in CallsOf(id) : \A i \in 1..Len(debits[c]) : debits[c][i] >= 0
         /\ Billed(id) <= vouchers[id].duration_minutes)
        => vouchers[id].remaining_minutes = vouchers[id].duration_minutes - Billed(id)

\* C2: however often endCall is invoked with one callId, the voucher is debited
\* for that call once.
C2_DebitedOnce == \A c \in 1..Len(call_logs) : Len(debits[c]) <= 1

\* C3: no step increases a voucher's remainingMinutes or makes it negative.
C3_NonIncreasing ==
    [][\A id \in Ids :
          /\ vouchers'[id].remaining_minutes <= vouchers[id].remaining_minutes
          /\ vouchers'[id].remaining_minutes >= 0]_vars

\* C4: every voucher has 0 <= remainingMinutes <= durationMinutes.
C4_BalanceInRange ==
    \A id \in Ids :
        /\ 0 <= vouchers[id].remaining_minutes
        /\ vouchers[id].remaining_minutes <= vouchers[id].duration_minutes

\* C5: isUsed turns true only in a step that brings remainingMinutes from above 0
\* to 0, never turns false again, and no voucher has remainingMinutes = 0 with
\* isUsed = false; so isUsed holds exactly when remainingMinutes has been 0.
C5_UsedWhenFirstZero ==
    /\ [](\A id \in Ids : vouchers[id].remaining_minutes = 0 => vouchers[id].is_used)
    /\ [][\A id \in Ids :
            /\ vouchers[id].is_used => vouchers'[id].is_used
            /\ (~vouchers[id].is_used /\ vouchers'[id].is_used)
                  => (vouchers[id].remaining_minutes > 0 /\ vouchers'[id].remaining_minutes = 0)]_vars
C5_Witness ==
    \E id \in Ids : vouchers[id].is_used /\ vouchers[id].remaining_minutes = 0

\* C6: once a voucher's deviceId is set, no step changes it.
C6_BoundOnce ==
    [][\A id \in Ids :
          vouchers[id].device_id # NULL => vouchers'[id].device_id = vouchers[id].device_id]_vars

\* C7: while a batch transaction is open or rolling back, no batch row and no
\* voucher of that batch is visible; once the failed operation has finished none
\* is persisted; and a persisted batch is whole (its row and `quantity` vouchers).
VouchersOfBatch(table, b) == {i \in 1..Len(table) : table[i].batch_id = b}
Unpersisted(batches, table, b) ==
    /\ \A row \in batches : row.id # b
    /\ VouchersOfBatch(table, b) = {}
C7_BatchAllOrNothing ==
    /\ [](\A s \in Slots :
            (req[s].op = "batch" /\ req[s].pc \in {"b_check", "b_insert", "b_commit", "b_rollback"}
               /\ ~req[s].committed)
            => Unpersisted(voucher_batches, vouchers, req[s].batchId))
    /\ [](\A id \in Ids :
            vouchers[id].batch_id # 0 =>
               \E row \in voucher_batches :
                  /\ row.id = vouchers[id].batch_id
                  /\ Cardinality(VouchersOfBatch(vouchers, row.id)) = row.quantity)
    /\ [][\A s \in Slots :
            (req[s].op = "batch" /\ req[s].pc = "b_rollback" /\ ~req[s].committed
               /\ req'[s].pc = "done")
            => (~req'[s].res.success
                /\ Unpersisted(voucher_batches', vouchers', req[s].batchId))]_vars
\* a batch fails after it has inserted a voucher
C7_Witness ==
    \E s \in Slots :
        /\ req[s].op = "batch" /\ req[s].pc = "b_rollback" /\ ~req[s].committed
        /\ Len(req[s].pending) >= 1

\* C8: the COMMIT of a batch of q vouchers of d minutes persists the batch row
\* and, in creation order, q vouchers with pairwise distinct codes, each with
\* remainingMinutes = durationMinutes = d, isUsed = false, isActive = true,
\* deviceId = null and the batch's id; the success response returns exactly those
\* q codes in that order, each the code of a persisted voucher of the batch.
C8_BatchCreatesQuantity ==
    [][\A s \in Slots :
        /\ (req[s].op = "batch" /\ req[s].pc = "b_commit" /\ req'[s].pc = "b_log")
           => LET q == req[s].quantity
                  codes == req[s].codes
              IN  /\ Len(codes) = q
                  /\ \A i, j \in 1..q : i # j => codes[i] # codes[j]
                  /\ Len(vouchers') = Len(vouchers) + q
                  /\ \A i \in 1..Len(vouchers) : vouchers'[i] = vouchers[i]
                  /\ \A i \in 1..q :
                        vouchers'[Len(vouchers) + i] =
                            [code |-> codes[i],
                             duration_minutes |-> req[s].durationMinutes,
                             remaining_minutes |-> req[s].durationMinutes,
                             is_used |-> FALSE, is_active |-> TRUE, device_id |-> NULL,
                             used_at |-> 0, batch_id |-> req[s].batchId]
                  /\ [id |-> req[s].batchId, quantity |-> q,
                      duration_minutes |-> req[s].durationMinutes] \in voucher_batches'
        /\ (req[s].op = "batch" /\ req[s].pc = "b_log" /\ req'[s].pc = "done"
               /\ req'[s].res.success)
           => LET codes == req'[s].res.data.codes
                  mine == VouchersOfBatch(vouchers', req[s].batchId)
              IN  /\ Len(codes) = req[s].quantity
                  /\ req'[s].res.data.total = req[s].quantity
                  /\ Cardinality(mine) = req[s].quantity
                  /\ \A i \in 1..Len(codes) :
                        \E id \in mine :
                           /\ vouchers'[id].code = codes[i]
                           /\ vouchers'[id].duration_minutes = req[s].durationMinutes
                           /\ Cardinality({k \in mine : k < id}) = i - 1]_vars
\* a batch of two vouchers has answered with its two codes
C8_Witness ==
    \E s \in Slots :
        /\ req[s].op = "batch" /\ req[s].pc = "done" /\ req[s].res.success
        /\ Len(req[s].res.data.codes) = 2
        /\ \E row \in voucher_batches :
              row.quantity = 2 /\ Cardinality(VouchersOfBatch(vouchers, row.id)) = 2

\* C9: a validate(code, deviceId) whose code (uppercased) names no voucher, or
\* names a voucher that is inactive, used or has remainingMinutes <= 0, ends in
\* that step with the success response valid = false and changes no voucher.
Redeemable(code) ==
    \E id \in Ids :
        /\ vouchers[id].code = toUpperCase(code)
        /\ vouchers[id].is_active
        /\ ~vouchers[id].is_used
        /\ vouchers[id].remaining_minutes > 0
C9_ValidateRejects ==
    [][\A s \in Slots :
          (req[s].pc = "idle" /\ req'[s].op = "validate"
             /\ req'[s].code.sym # Missing /\ req'[s].deviceId # Missing
             /\ ~Redeemable(req'[s].code))
          => /\ req'[s].pc = "done"
             /\ req'[s].res = [success |-> TRUE, status |-> 200,
                               data |-> [valid |-> FALSE, durationMinutes |-> 0,
                                         voucherId |-> 0]]
             /\ vouchers' = vouchers]_vars
\* a validate of a used voucher's code, sent in lower case, has answered valid = false
C9_Witness ==
    \E s \in Slots, id \in Ids :
        /\ req[s].op = "validate" /\ req[s].pc = "done"
        /\ req[s].res.success /\ ~req[s].res.data.valid
        /\ ~req[s].code.upper
        /\ vouchers[id].code = toUpperCase(req[s].code)
        /\ vouchers[id].is_used /\ vouchers[id].device_id = NULL

\* C10: the voucher UPDATE of an endCall with actualDurationSeconds d >= 0 takes
\* exactly ceil(d / 60) minutes off the balance, stopping at 0.
CeilMinutes(d) == CHOOSE m \in 0..d : 60 * m >= d /\ 60 * (m - 1) < d
C10_BillsCeiling ==
    [][\A s \in Slots :
          (req[s].op = "endCall" /\ req[s].pc = "e_voucher" /\ req'[s].pc = "e_log"
             /\ req[s].actualDurationSeconds >= 0)
          => LET id == req[s].voucherId IN
             vouchers'[id].remaining_minutes =
                Max(0, vouchers[id].remaining_minutes - CeilMinutes(req[s].actualDurationSeconds))]_vars
\* a call of 61 seconds has taken both minutes of a two-minute voucher
C10_Witness ==
    \E s \in Slots :
        /\ req[s].op = "endCall" /\ req[s].pc = "e_log"
        /\ req[s].actualDurationSeconds = 61
        /\ vouchers[req[s].voucherId].duration_minutes = 2
        /\ vouchers[req[s].voucherId].remaining_minutes = 0
        /\ Billed(req[s].voucherId) = 2

\* C11: a startCall whose voucher, at the moment the request is served, does not
\* exist, is inactive, is used or has remainingMinutes <= 0 is rejected in that
\* step and creates no call record, whatever an earlier validate answered; and
\* a call record is only created by a startCall that passed this check.
Eligible(voucherId) ==
    /\ voucherId \in Ids
    /\ vouchers[voucherId].is_active
    /\ ~vouchers[voucherId].is_used
    /\ vouchers[voucherId].remaining_minutes > 0
C11_StartRechecks ==
    [][/\ \A s \in Slots :
            (req[s].pc = "idle" /\ req'[s].op = "startCall" /\ ~Eligible(req'[s].voucherId))
            => /\ req'[s].pc = "done"
               /\ ~req'[s].res.success
               /\ call_logs' = call_logs
       /\ Len(call_logs') # Len(call_logs)
            => \E s \in Slots : req[s].op = "startCall" /\ req[s].pc = "s_insert"
                                 /\ req'[s].pc = "s_log"]_vars
\* a voucher was validated with success, then deactivated, and the startCall on
\* it has been rejected
C11_Witness ==
    \E s \in Slots :
        /\ req[s].op = "startCall" /\ req[s].pc = "done" /\ ~req[s].res.success
        /\ req[s].voucherId \in Ids
        /\ ~vouchers[req[s].voucherId].is_active
        /\ vouchers[req[s].voucherId].device_id # NULL
        /\ vouchers[req[s].voucherId].remaining_minutes > 0

\* C12: a call's status only moves from active to a terminal status, and once a
\* call is terminal no step changes its status, durationSeconds or endedAt.
Terminal(status) == status \in {"completed", "failed", "cancelled"}
C12_TerminalIsFinal ==
    [][\A c \in 1..Len(call_logs) :
          /\ call_logs'[c].status # call_logs[c].status
                => (call_logs[c].status = "active" /\ Terminal(call_logs'[c].status))
          /\ Terminal(call_logs[c].status)
                => /\ call_logs'[c].status = call_logs[c].status
                   /\ call_logs'[c].duration_seconds = call_logs[c].duration_seconds
                   /\ call_logs'[c].ended_at = call_logs[c].ended_at]_vars

\* C13: an endCall with actualDurationSeconds < 0 is rejected when it is served,
\* and no step of it changes a call record or a voucher.
NegativeEnd(r) ==
    /\ r.op = "endCall"
    /\ "actualDurationSeconds" \in DOMAIN r
    /\ r.actualDurationSeconds < 0
C13_RejectsNegative ==
    [][\A s \in Slots :
          /\ (req[s].pc = "idle" /\ NegativeEnd(req'[s]))
                => (req'[s].pc = "done" /\ ~req'[s].res.success)
          /\ (NegativeEnd(req[s]) /\ req'[s] # req[s])
                => (call_logs' = call_logs /\ vouchers' = vouchers)]_vars

\* C14: usedAt is set once, in the debit that first brings remainingMinutes to
\* 0 (a voucher that has reached 0 has it), and no later step overwrites it.
C14_UsedAtOnce ==
    /\ [](\A id \in Ids : vouchers[id].remaining_minutes = 0 => vouchers[id].used_at # 0)
    /\ [][\A id \in Ids :
            /\ vouchers[id].used_at # 0 => vouchers'[id].used_at = vouchers[id].used_at
            /\ (vouchers[id].used_at = 0 /\ vouchers'[id].used_at # 0)
                  => (vouchers[id].remaining_minutes > 0 /\ vouchers'[id].remaining_minutes = 0)]_vars
\* an exhausted voucher has been debited again, after the debit that stamped it
C14_Witness ==
    \E s \in Slots :
        /\ req[s].op = "endCall" /\ req[s].pc = "e_log" /\ req[s].minutesUsed > 0
        /\ vouchers[req[s].voucherId].remaining_minutes = 0
        /\ vouchers[req[s].voucherId].used_at # 0
        /\ vouchers[req[s].voucherId].used_at < clock

\* C15: when the audit insert of a startCall or an endCall fails, after the call
\* record was created or the debit was applied, the operation still answers with
\* success, and the call record and the voucher stay as they were written.
C15_AuditFailureTolerated ==
    [][\A s \in Slots :
          (req[s].op \in {"startCall", "endCall"} /\ req[s].pc \in {"s_log", "e_log"}
             /\ req'[s].pc = "done")
          => /\ req'[s].res.success
             /\ call_logs' = call_logs
             /\ vouchers' = vouchers]_vars

\* C16: no two vouchers share a code, whatever the interleaving of single and
\* batch generations.
C16_CodesUnique ==
    \A i, j \in Ids : i # j => vouchers[i].code # vouchers[j].code
\* two generations passed the pre-check with the same candidate and one has
\* inserted it: the other is about to insert a code that now exists
C16_Witness ==
    \E s \in Slots :
        /\ req[s].pc \in {"g_insert", "b_insert"}
        /\ CodeExists(req[s].code)

\* C17: a single-voucher generation whose INSERT meets a duplicate code goes on
\* with another candidate; the conflict does not end the request with an error.
C17_ConflictRetried ==
    [][\A s \in Slots :
          (req[s].op = "generate" /\ req[s].pc = "g_insert" /\ CodeExists(req[s].code)
             /\ req'[s] # req[s])
          => (req'[s].op = "generate" /\ req'[s].pc \in {"g_check", "g_insert"})]_vars

\* C18: a voucher generation that has been admitted ends: it answers (with the
\* voucher or with an error) also when every candidate it draws is taken.
C18_AllocationTerminates ==
    \A s \in Slots : (req[s].op = "generate" /\ req[s].pc = "g_check") ~> (req[s].pc = "done")

\* C19: no step of a startCall changes a voucher; and when the two calls started
\* on one voucher have both ended, once each, with billed minutes that total
\* more than the voucher's balance, the voucher has remainingMinutes = 0 and
\* isUsed = true.
BothEnded(id) ==
    /\ Cardinality(CallsOf(id)) = 2
    /\ \A c \in CallsOf(id) : Len(debits[c]) = 1
    /\ ~Settling(id)
Ceiling(d) ==
    LET a == IF d < 0 THEN -d ELSE d
    IN  CHOOSE m \in -a..a : 60 * m >= d /\ 60 * (m - 1) < d
RECURSIVE CompletedMinutes(_)
CompletedMinutes(calls) ==
    IF calls = {} THEN 0
    ELSE LET c == CHOOSE x \in calls : TRUE
         IN  (IF call_logs[c].status = "completed"
              THEN Ceiling(call_logs[c].duration_seconds) ELSE 0)
             + CompletedMinutes(calls \ {c})
C20_SettlementConserved ==
    InFlight("endCall", {"e_call", "e_voucher", "e_log"}) = {}
    => \A id \in Ids :
          vouchers[id].remaining_minutes =
             Max(0, vouchers[id].duration_minutes - CompletedMinutes(CallsOf(id)))

\* C21: no call record is inserted at a moment when its voucher has
\* isUsed = true or remainingMinutes = 0.
C21_NoInsertOnExhausted ==
    [][Len(call_logs') > Len(call_logs)
          => LET id == call_logs'[Len(call_logs')].voucher_id
             IN  ~vouchers[id].is_used /\ vouchers[id].remaining_minutes # 0]_vars

\* C22: when a batch generation answers with an error, no batch row and no
\* voucher of that batch is persisted, whichever step of the handler failed.
C22_ErrorMeansNoBatch ==
    [][\A s \in Slots :
          (req[s].op = "batch" /\ req[s].pc # "done" /\ req'[s].pc = "done"
             /\ ~req'[s].res.success)
          => Unpersisted(voucher_batches', vouchers', req[s].batchId)]_vars
====
